---- MODULE Spec2Model ----
(***************************************************************************)
(* Model of github.com/crunk1/go-jsonschema/2019-09 (src/example/main.go):  *)
(* the Schema value (a *bool / *schema pair), Schema.UnmarshalJSON and the  *)
(* encoding/json decoding it drives, json.Marshal of a Schema, AsBool,      *)
(* FromURI and the example program's main.                                  *)
(*                                                                          *)
(* Go values are modelled as follows.                                       *)
(*   - A pointer, a slice header or a map header is a sequence of length    *)
(*     at most one: <<>> is nil, <<x>> is non-nil with contents x.          *)
(*   - JSON text is a tagged record [k, v]; k is one of "null", "bool",     *)
(*     "num", "str", "arr", "obj", "bad" ("bad" is text that is not         *)
(*     well-formed JSON).  An object's v is the SEQUENCE of its members     *)
(*     <<name, value>> in document order, so that repeated names exist.     *)
(*     A number's v counts tenths (30 is 3, 15 is 1.5, -10 is -1); the      *)
(*     numbers used are small enough that float64 holds them exactly.       *)
(*   - A value held in an interface{} is the same tagged record, with an    *)
(*     object's v a function from names (map[string]interface{}) and the    *)
(*     nil interface written [k |-> "null"].                                *)
(*   - A slice is <<[n |-> length, a |-> backing array]>>: the decoder      *)
(*     reuses the backing array of a slice it decodes into a second time.   *)
(***************************************************************************)
EXTENDS Integers, Sequences, FiniteSets, TLC

VARIABLES
    ppc,        \* parse harness: "input", "parsed", "inspected", "marshalled"
    data,       \* parse harness: the JSON text handed to json.Unmarshal
    sv,         \* parse harness: the Schema value decoded into
    perr,       \* parse harness: whether json.Unmarshal returned an error
    asb,        \* parse harness: AsBool() of the root, <<value, ok>>
    bytes,      \* parse harness: json.Marshal of sv, <<>> before it ran
    pc,         \* FromURI / main: the control point
    uri,        \* FromURI: the uri argument
    world,      \* FromURI: what the file system and the HTTP server answer
    s,          \* FromURI: the local s (*Schema)
    bs,         \* FromURI: the bytes read, <<>> before the read
    resp,       \* FromURI: the *http.Response, <<>> when there is none
    deferred,   \* FromURI: whether the deferred resp.Body.Close() is registered
    bodyOpen,   \* whether a response body is open
    ret,        \* what FromURI returned: <<[s, err]>>, <<>> before it returned
    printed,    \* main: what s.AdditionalProperties.AsBool() returned, <<>> before
    calls,      \* how often http.Get, ioutil.ReadFile, ioutil.ReadAll, json.Unmarshal ran
    panicked    \* main: whether a nil pointer was dereferenced

pvars == <<ppc, data, sv, perr, asb, bytes>>
lvars == <<pc, uri, world, s, bs, resp, deferred, bodyOpen, ret, printed, calls, panicked>>
vars == <<ppc, data, sv, perr, asb, bytes, pc, uri, world, s, bs, resp, deferred, bodyOpen, ret, printed, calls, panicked>>

(***************************************************************************)
(* The type catalogue.                                                      *)
(***************************************************************************)

\* type Type string and its seven constants; var types.
types == <<"array", "boolean", "integer", "null", "number", "object", "string">>

\* The fields of struct schema in declaration order: the Go name, the name
\* encoding/json uses (the tag's, or the Go name when there is no tag),
\* whether the tag says omitempty, and the Go type:
\*   pstring *string, pbool *bool, puint *uint64, pfloat *float64,
\*   any interface{}, anys []interface{}, strings []string,
\*   pschema *Schema, schemas []*Schema, mschema map[string]*Schema,
\*   mbool map[string]bool, mstrings map[string][]string.
Fields == <<
    [go |-> "Title", json |-> "title", omitempty |-> TRUE, shape |-> "pstring"],
    [go |-> "Description", json |-> "description", omitempty |-> TRUE, shape |-> "pstring"],
    [go |-> "Default", json |-> "default", omitempty |-> TRUE, shape |-> "any"],
    [go |-> "Deprecated", json |-> "deprecated", omitempty |-> TRUE, shape |-> "pbool"],
    [go |-> "ReadOnly", json |-> "readOnly", omitempty |-> TRUE, shape |-> "pbool"],
    [go |-> "WriteOnly", json |-> "writeOnly", omitempty |-> TRUE, shape |-> "pbool"],
    [go |-> "Examples", json |-> "examples", omitempty |-> TRUE, shape |-> "anys"],
    [go |-> "Schema", json |-> "$schema", omitempty |-> TRUE, shape |-> "pstring"],
    [go |-> "Vocabulary", json |-> "$vocabulary", omitempty |-> TRUE, shape |-> "mbool"],
    [go |-> "ID", json |-> "$id", omitempty |-> TRUE, shape |-> "pstring"],
    [go |-> "Anchor", json |-> "$anchor", omitempty |-> TRUE, shape |-> "pstring"],
    [go |-> "RecursiveAnchor", json |-> "$recursiveAnchor", omitempty |-> TRUE, shape |-> "pbool"],
    [go |-> "Ref", json |-> "$ref", omitempty |-> TRUE, shape |-> "pstring"],
    [go |-> "RecursiveRef", json |-> "$recursiveRef", omitempty |-> TRUE, shape |-> "pstring"],
    [go |-> "Defs", json |-> "$defs", omitempty |-> TRUE, shape |-> "mschema"],
    [go |-> "Definitions", json |-> "definitions", omitempty |-> TRUE, shape |-> "mschema"],
    [go |-> "Comment", json |-> "$comment", omitempty |-> TRUE, shape |-> "pstring"],
    [go |-> "AllOf", json |-> "allOf", omitempty |-> TRUE, shape |-> "schemas"],
    [go |-> "AnyOf", json |-> "anyOf", omitempty |-> TRUE, shape |-> "schemas"],
    [go |-> "OneOf", json |-> "oneOf", omitempty |-> TRUE, shape |-> "schemas"],
    [go |-> "Not", json |-> "not", omitempty |-> TRUE, shape |-> "pschema"],
    [go |-> "If", json |-> "if", omitempty |-> TRUE, shape |-> "pschema"],
    [go |-> "Then", json |-> "then", omitempty |-> TRUE, shape |-> "pschema"],
    [go |-> "Else", json |-> "else", omitempty |-> TRUE, shape |-> "pschema"],
    [go |-> "DependentSchemas", json |-> "dependentSchemas", omitempty |-> TRUE, shape |-> "mschema"],
    [go |-> "Type", json |-> "type", omitempty |-> TRUE, shape |-> "any"],
    [go |-> "Enum", json |-> "enum", omitempty |-> TRUE, shape |-> "strings"],
    [go |-> "Const", json |-> "const", omitempty |-> TRUE, shape |-> "any"],
    [go |-> "Items", json |-> "items", omitempty |-> TRUE, shape |-> "any"],
    [go |-> "AdditionalItems", json |-> "additionalItems", omitempty |-> TRUE, shape |-> "pschema"],
    [go |-> "UnevaluatedItems", json |-> "unevaluatedItems", omitempty |-> TRUE, shape |-> "pschema"],
    [go |-> "Contains", json |-> "contains", omitempty |-> TRUE, shape |-> "pschema"],
    [go |-> "MaxItems", json |-> "maxItems", omitempty |-> TRUE, shape |-> "puint"],
    [go |-> "MinItems", json |-> "minItems", omitempty |-> TRUE, shape |-> "puint"],
    [go |-> "UniqueItems", json |-> "uniqueItems", omitempty |-> TRUE, shape |-> "pbool"],
    [go |-> "MaxContains", json |-> "maxContains", omitempty |-> TRUE, shape |-> "puint"],
    [go |-> "MinContains", json |-> "minContains", omitempty |-> TRUE, shape |-> "puint"],
    [go |-> "Properties", json |-> "Properties", omitempty |-> FALSE, shape |-> "mschema"],
    [go |-> "PatternProperties", json |-> "PatternProperties", omitempty |-> FALSE, shape |-> "mschema"],
    [go |-> "AdditionalProperties", json |-> "AdditionalProperties", omitempty |-> FALSE, shape |-> "pschema"],
    [go |-> "UnevaluatedProperties", json |-> "UnevaluatedProperties", omitempty |-> FALSE, shape |-> "pschema"],
    [go |-> "PropertyNames", json |-> "PropertyNames", omitempty |-> FALSE, shape |-> "pschema"],
    [go |-> "MaxProperties", json |-> "maxProperties", omitempty |-> TRUE, shape |-> "puint"],
    [go |-> "MinProperties", json |-> "minProperties", omitempty |-> TRUE, shape |-> "puint"],
    [go |-> "Required", json |-> "required", omitempty |-> TRUE, shape |-> "strings"],
    [go |-> "DependentRequired", json |-> "dependentRequired", omitempty |-> TRUE, shape |-> "mstrings"],
    [go |-> "MultipleOf", json |-> "multipleOf", omitempty |-> TRUE, shape |-> "pfloat"],
    [go |-> "Maximum", json |-> "maximum", omitempty |-> TRUE, shape |-> "pfloat"],
    [go |-> "ExclusiveMaximum", json |-> "exclusiveMaximum", omitempty |-> TRUE, shape |-> "pfloat"],
    [go |-> "Minimum", json |-> "minimum", omitempty |-> TRUE, shape |-> "pfloat"],
    [go |-> "ExclusiveMinimum", json |-> "exclusiveMinimum", omitempty |-> TRUE, shape |-> "pfloat"],
    [go |-> "MaxLength", json |-> "maxLength", omitempty |-> TRUE, shape |-> "puint"],
    [go |-> "MinLength", json |-> "minLength", omitempty |-> TRUE, shape |-> "puint"],
    [go |-> "Pattern", json |-> "pattern", omitempty |-> TRUE, shape |-> "pstring"],
    [go |-> "Format", json |-> "format", omitempty |-> TRUE, shape |-> "pstring"]
>>

\* strings.ToLower on the names the model uses (encoding/json matches an
\* object member to a field by exact name first and then case-insensitively).
Lower(name) ==
    CASE name = "$recursiveAnchor" -> "$recursiveanchor"
      [] name = "$recursiveRef" -> "$recursiveref"
      [] name = "AdditionalItems" -> "additionalitems"
      [] name = "AdditionalProperties" -> "additionalproperties"
      [] name = "AllOf" -> "allof"
      [] name = "Anchor" -> "anchor"
      [] name = "AnyOf" -> "anyof"
      [] name = "Comment" -> "comment"
      [] name = "Const" -> "const"
      [] name = "Contains" -> "contains"
      [] name = "Default" -> "default"
      [] name = "Definitions" -> "definitions"
      [] name = "Defs" -> "defs"
      [] name = "DependentRequired" -> "dependentrequired"
      [] name = "DependentSchemas" -> "dependentschemas"
      [] name = "Deprecated" -> "deprecated"
      [] name = "Description" -> "description"
      [] name = "Else" -> "else"
      [] name = "Enum" -> "enum"
      [] name = "Examples" -> "examples"
      [] name = "ExclusiveMaximum" -> "exclusivemaximum"
      [] name = "ExclusiveMinimum" -> "exclusiveminimum"
      [] name = "Format" -> "format"
      [] name = "ID" -> "id"
      [] name = "If" -> "if"
      [] name = "Items" -> "items"
      [] name = "MaxContains" -> "maxcontains"
      [] name = "MaxItems" -> "maxitems"
      [] name = "MaxLength" -> "maxlength"
      [] name = "MaxProperties" -> "maxproperties"
      [] name = "Maximum" -> "maximum"
      [] name = "MinContains" -> "mincontains"
      [] name = "MinItems" -> "minitems"
      [] name = "MinLength" -> "minlength"
      [] name = "MinProperties" -> "minproperties"
      [] name = "Minimum" -> "minimum"
      [] name = "MultipleOf" -> "multipleof"
      [] name = "Not" -> "not"
      [] name = "OneOf" -> "oneof"
      [] name = "Pattern" -> "pattern"
      [] name = "PatternProperties" -> "patternproperties"
      [] name = "Properties" -> "properties"
      [] name = "PropertyNames" -> "propertynames"
      [] name = "ReadOnly" -> "readonly"
      [] name = "RecursiveAnchor" -> "recursiveanchor"
      [] name = "RecursiveRef" -> "recursiveref"
      [] name = "Ref" -> "ref"
      [] name = "Required" -> "required"
      [] name = "Schema" -> "schema"
      [] name = "Then" -> "then"
      [] name = "Title" -> "title"
      [] name = "Type" -> "type"
      [] name = "UnevaluatedItems" -> "unevaluateditems"
      [] name = "UnevaluatedProperties" -> "unevaluatedproperties"
      [] name = "UniqueItems" -> "uniqueitems"
      [] name = "Vocabulary" -> "vocabulary"
      [] name = "WriteOnly" -> "writeonly"
      [] name = "additionalItems" -> "additionalitems"
      [] name = "additionalProperties" -> "additionalproperties"
      [] name = "allOf" -> "allof"
      [] name = "anyOf" -> "anyof"
      [] name = "dependentRequired" -> "dependentrequired"
      [] name = "dependentSchemas" -> "dependentschemas"
      [] name = "exclusiveMaximum" -> "exclusivemaximum"
      [] name = "exclusiveMinimum" -> "exclusiveminimum"
      [] name = "maxContains" -> "maxcontains"
      [] name = "maxItems" -> "maxitems"
      [] name = "maxLength" -> "maxlength"
      [] name = "maxProperties" -> "maxproperties"
      [] name = "minContains" -> "mincontains"
      [] name = "minItems" -> "minitems"
      [] name = "minLength" -> "minlength"
      [] name = "minProperties" -> "minproperties"
      [] name = "multipleOf" -> "multipleof"
      [] name = "oneOf" -> "oneof"
      [] name = "patternProperties" -> "patternproperties"
      [] name = "propertyNames" -> "propertynames"
      [] name = "readOnly" -> "readonly"
      [] name = "unevaluatedItems" -> "unevaluateditems"
      [] name = "unevaluatedProperties" -> "unevaluatedproperties"
      [] name = "uniqueItems" -> "uniqueitems"
      [] name = "writeOnly" -> "writeonly"
      [] OTHER -> name

(***************************************************************************)
(* JSON text, and the values encoding/json builds from it.                 *)
(***************************************************************************)

JNull == [k |-> "null", v |-> <<>>]
JBool(b) == [k |-> "bool", v |-> b]
JNum(tenths) == [k |-> "num", v |-> tenths]
JStr(str) == [k |-> "str", v |-> str]
JArr(elems) == [k |-> "arr", v |-> elems]
JObj(members) == [k |-> "obj", v |-> members]
JBad == [k |-> "bad", v |-> <<>>]

\* Every name that occurs as an object member or map key, in the byte order
\* json.Marshal sorts map keys by (sort.Strings).
SortedNames == <<"a", "additionalProperties", "allOf", "b", "const", "items",
                 "maxItems", "not", "properties", "required", "title", "type",
                 "x-unknown">>

\* The result of a decoding step: whether it reported an error, and the value
\* it left in its target.  After an error only err is meaningful: FromURI
\* drops the value, and what a failed step leaves in val is not modelled.
Ok(val) == [err |-> FALSE, val |-> val]
Fail(val) == [err |-> TRUE, val |-> val]

IsNil(p) == Len(p) = 0

MaxOf(a, b) == IF a >= b THEN a ELSE b

\* The index of the last member named name in the member sequence ms.
LastIndex(ms, name) ==
    CHOOSE i \in 1..Len(ms) :
        /\ ms[i][1] = name
        /\ \A j \in (i+1)..Len(ms) : ms[j][1] # name

MemberNames(ms) == {ms[i][1] : i \in 1..Len(ms)}

\* The value of the last member named name among the members ms.
LastValue(ms, name) == ms[LastIndex(ms, name)][2]

\* The members of a Go map m in the order json.Marshal writes them.
SortedKeys(m) == SelectSeq(SortedNames, LAMBDA n : n \in DOMAIN m)

GoNames == {Fields[i].go : i \in 1..Len(Fields)}

FieldOf(go) == Fields[CHOOSE i \in 1..Len(Fields) : Fields[i].go = go]

\* The zero value of a field: the nil interface, or a nil pointer, slice or map.
ZeroOf(shape) == IF shape = "any" THEN JNull ELSE <<>>

\* &schema{}: every field zero, baseURI "".
ZeroStruct == [f |-> [n \in GoNames |-> ZeroOf(FieldOf(n).shape)], baseURI |-> ""]

\* &Schema{}: both embedded pointers nil.
NewSchema == [bool |-> <<>>, schema |-> <<>>]

\* The field an object member named key is decoded into (its index in Fields),
\* 0 when there is none and the member is skipped.
FieldFor(key) ==
    LET exact == {i \in 1..Len(Fields) : Fields[i].json = key}
        fold == {i \in 1..Len(Fields) : Lower(Fields[i].json) = Lower(key)}
        First(S) == CHOOSE i \in S : \A j \in S : i <= j
    IN  IF exact # {} THEN First(exact)
        ELSE IF fold # {} THEN First(fold)
        ELSE 0

RECURSIVE ToInterface(_)
RECURSIVE FromInterface(_)
RECURSIVE UnmarshalJSON(_, _)
RECURSIVE DecodeMembers(_, _)
RECURSIVE DecodeValue(_, _, _)
RECURSIVE DecodeSchemaPtr(_, _)

\* Decoding JSON into an interface{}: null is the nil interface; an object
\* becomes a map[string]interface{}, where a repeated name keeps its last
\* value and the member order is forgotten; an array becomes []interface{}.
ToInterface(j) ==
    CASE j.k = "arr" -> JArr([i \in 1..Len(j.v) |-> ToInterface(j.v[i])])
      [] j.k = "obj" ->
            [k |-> "obj",
             v |-> [n \in MemberNames(j.v) |-> ToInterface(LastValue(j.v, n))]]
      [] OTHER -> j

\* json.Marshal of a value held in an interface{}: a map is written with its
\* keys sorted.
FromInterface(g) ==
    CASE g.k = "arr" -> JArr([i \in 1..Len(g.v) |-> FromInterface(g.v[i])])
      [] g.k = "obj" ->
            LET ks == SortedKeys(g.v)
            IN  JObj([i \in 1..Len(ks) |-> <<ks[i], FromInterface(g.v[ks[i]])>>])
      [] OTHER -> g

\* Decoding into *string, *bool, *uint64, *float64: null sets the pointer to
\* nil; a value of the right JSON kind is stored; anything else is an
\* UnmarshalTypeError.  A *uint64 takes only a non-negative integer literal.
DecodeScalarPtr(shape, cur, j) ==
    CASE j.k = "null" -> Ok(<<>>)
      [] shape = "pstring" /\ j.k = "str" -> Ok(<<j.v>>)
      [] shape = "pbool" /\ j.k = "bool" -> Ok(<<j.v>>)
      [] shape = "puint" /\ j.k = "num" /\ j.v >= 0 /\ j.v % 10 = 0 -> Ok(<<j.v \div 10>>)
      [] shape = "pfloat" /\ j.k = "num" -> Ok(<<j.v>>)
      [] OTHER -> Fail(cur)

\* The backing array of the slice cur, <<>> for a nil slice.
Backing(cur) == IF IsNil(cur) THEN <<>> ELSE cur[1].a

\* The elements of the slice cur.
Elems(cur) == IF IsNil(cur) THEN <<>> ELSE SubSeq(cur[1].a, 1, cur[1].n)

\* What slot i of the slice cur holds when an array element is decoded into
\* it: the backing array's value, or zero for a slot the slice grows by.
Slot(cur, i, zero) == IF i <= Len(Backing(cur)) THEN Backing(cur)[i] ELSE zero

\* The slice a JSON array leaves in cur, elems being the values its elements
\* were decoded to: an empty array makes a fresh empty slice; otherwise the
\* slots of cur's backing array are overwritten in place and the slots past
\* the array's length keep what they held.
DecodeArrayInto(cur, elems) ==
    IF Len(elems) = 0 THEN <<[n |-> 0, a |-> <<>>]>>
    ELSE LET old == Backing(cur)
         IN  <<[n |-> Len(elems),
                a |-> [i \in 1..MaxOf(Len(elems), Len(old)) |->
                          IF i <= Len(elems) THEN elems[i] ELSE old[i]]]>>

\* Decoding into []string: a null element leaves its slot as it is.
DecodeStrings(cur, j) ==
    CASE j.k = "null" -> Ok(<<>>)
      [] j.k = "arr" ->
            [err |-> \E i \in 1..Len(j.v) : j.v[i].k \notin {"str", "null"},
             val |-> DecodeArrayInto(cur,
                        [i \in 1..Len(j.v) |->
                            IF j.v[i].k = "str" THEN j.v[i].v ELSE Slot(cur, i, "")])]
      [] OTHER -> Fail(cur)

\* Decoding into []interface{}.
DecodeAnys(cur, j) ==
    CASE j.k = "null" -> Ok(<<>>)
      [] j.k = "arr" ->
            Ok(DecodeArrayInto(cur, [i \in 1..Len(j.v) |-> ToInterface(j.v[i])]))
      [] OTHER -> Fail(cur)

\* The map a JSON object leaves in cur, elems giving for each member name the
\* value it was decoded to: the members are stored into the map already
\* there (a new one when it is nil), each decoded into a fresh element, so a
\* repeated name keeps its last value and the entries of other names stay.
DecodeMapInto(cur, elems) ==
    LET base == IF IsNil(cur) THEN <<>> ELSE cur[1]
    IN  <<[n \in (DOMAIN base) \cup (DOMAIN elems) |->
              IF n \in DOMAIN elems THEN elems[n] ELSE base[n]]>>

\* Decoding into map[string]bool: a null value leaves the fresh element false.
DecodeBoolMap(cur, j) ==
    CASE j.k = "null" -> Ok(<<>>)
      [] j.k = "obj" ->
            [err |-> \E i \in 1..Len(j.v) : j.v[i][2].k \notin {"bool", "null"},
             val |-> DecodeMapInto(cur,
                        [n \in MemberNames(j.v) |->
                            IF LastValue(j.v, n).k = "bool" THEN LastValue(j.v, n).v ELSE FALSE])]
      [] OTHER -> Fail(cur)

\* Decoding into map[string][]string.
DecodeStringsMap(cur, j) ==
    CASE j.k = "null" -> Ok(<<>>)
      [] j.k = "obj" ->
            [err |-> \E i \in 1..Len(j.v) : DecodeStrings(<<>>, j.v[i][2]).err,
             val |-> DecodeMapInto(cur,
                        [n \in MemberNames(j.v) |-> DecodeStrings(<<>>, LastValue(j.v, n)).val])]
      [] OTHER -> Fail(cur)

\* func (s *Schema) UnmarshalJSON(data []byte) error: the text false or true
\* sets s.bool; any other text sets s.schema to a new schema and decodes the
\* text into it with json.Unmarshal, which rejects text that is not JSON and
\* any value other than an object or null, and leaves the struct untouched on
\* null.  Neither branch clears the other pointer.
UnmarshalJSON(sc, j) ==
    IF j.k = "bool"
    THEN Ok([sc EXCEPT !.bool = <<j.v>>])
    ELSE LET r == CASE j.k = "obj" -> DecodeMembers(j.v, ZeroStruct)
                    [] j.k = "null" -> Ok(ZeroStruct)
                    [] OTHER -> Fail(ZeroStruct)
         IN  [err |-> r.err, val |-> [sc EXCEPT !.schema = <<r.val>>]]

\* Decoding into a *Schema, which implements json.Unmarshaler: null sets the
\* pointer to nil; otherwise a nil pointer is given a new Schema, a non-nil
\* one is kept, and UnmarshalJSON is called on what it points to.
DecodeSchemaPtr(cur, j) ==
    IF j.k = "null" THEN Ok(<<>>)
    ELSE LET r == UnmarshalJSON(IF IsNil(cur) THEN NewSchema ELSE cur[1], j)
         IN  [err |-> r.err, val |-> <<r.val>>]

\* Decoding into a field of the given Go type.
DecodeValue(shape, cur, j) ==
    CASE shape \in {"pstring", "pbool", "puint", "pfloat"} -> DecodeScalarPtr(shape, cur, j)
      [] shape = "any" -> Ok(ToInterface(j))
      [] shape = "anys" -> DecodeAnys(cur, j)
      [] shape = "strings" -> DecodeStrings(cur, j)
      [] shape = "pschema" -> DecodeSchemaPtr(cur, j)
      [] shape = "schemas" ->
            CASE j.k = "null" -> Ok(<<>>)
              [] j.k = "arr" ->
                    [err |-> \E i \in 1..Len(j.v) :
                                DecodeSchemaPtr(Slot(cur, i, <<>>), j.v[i]).err,
                     val |-> DecodeArrayInto(cur,
                                [i \in 1..Len(j.v) |->
                                    DecodeSchemaPtr(Slot(cur, i, <<>>), j.v[i]).val])]
              [] OTHER -> Fail(cur)
      [] shape = "mschema" ->
            CASE j.k = "null" -> Ok(<<>>)
              [] j.k = "obj" ->
                    [err |-> \E i \in 1..Len(j.v) : DecodeSchemaPtr(<<>>, j.v[i][2]).err,
                     val |-> DecodeMapInto(cur,
                                [n \in MemberNames(j.v) |->
                                    DecodeSchemaPtr(<<>>, LastValue(j.v, n)).val])]
              [] OTHER -> Fail(cur)
      [] shape = "mbool" -> DecodeBoolMap(cur, j)
      [] shape = "mstrings" -> DecodeStringsMap(cur, j)

\* Decoding the members ms of a JSON object into the struct st, in document
\* order: a member that matches no field is skipped; a member that matches a
\* field is decoded into that field as it stands, so a repeated name decodes
\* into what the earlier occurrence left there.
DecodeMembers(ms, st) ==
    IF Len(ms) = 0 THEN Ok(st)
    ELSE LET m == Head(ms)
             fi == FieldFor(m[1])
         IN  IF fi = 0 THEN DecodeMembers(Tail(ms), st)
             ELSE LET go == Fields[fi].go
                      r == DecodeValue(Fields[fi].shape, st.f[go], m[2])
                      rest == DecodeMembers(Tail(ms), [st EXCEPT !.f[go] = r.val])
                  IN  [err |-> r.err \/ rest.err, val |-> rest.val]

\* json.Unmarshal(data, s) for s *Schema: text that is not well-formed JSON is
\* rejected before anything is decoded; otherwise s.UnmarshalJSON(data).
JsonUnmarshal(j, sc) ==
    IF j.k = "bad" THEN Fail(sc) ELSE UnmarshalJSON(sc, j)

\* func (s *Schema) AsBool() (value bool, ok bool), for a non-nil s.
AsBool(sc) == IF IsNil(sc.bool) THEN <<FALSE, FALSE>> ELSE <<sc.bool[1], TRUE>>

(***************************************************************************)
(* json.Marshal of a Schema.  Schema has no MarshalJSON: encoding/json     *)
(* writes it as a struct.  The embedded *bool is an unexported field of a  *)
(* non-struct type and is ignored; the fields of the embedded *schema are  *)
(* promoted, and skipped altogether when that pointer is nil.              *)
(***************************************************************************)

RECURSIVE MarshalSchema(_)
RECURSIVE MarshalValue(_, _)

\* encoding/json's isEmptyValue, which decides what omitempty leaves out: a
\* nil pointer or interface, a slice or map of length 0.
IsEmptyValue(shape, val) ==
    CASE shape = "any" -> val.k = "null"
      [] shape \in {"anys", "strings", "schemas"} -> IsNil(val) \/ val[1].n = 0
      [] shape \in {"mschema", "mbool", "mstrings"} -> IsNil(val) \/ DOMAIN val[1] = {}
      [] OTHER -> IsNil(val)

\* json.Marshal of a []string.
MarshalStrings(val) ==
    IF IsNil(val) THEN JNull
    ELSE JArr([i \in 1..val[1].n |-> JStr(val[1].a[i])])

\* json.Marshal of a *Schema: null when nil.
MarshalSchemaPtr(p) == IF IsNil(p) THEN JNull ELSE MarshalSchema(p[1])

\* json.Marshal of a field of the given Go type: nil pointers, slices and
\* maps are written null, maps with their keys sorted.
MarshalValue(shape, val) ==
    CASE shape = "any" -> FromInterface(val)
      [] IsNil(val) -> JNull
      [] shape = "pstring" -> JStr(val[1])
      [] shape = "pbool" -> JBool(val[1])
      [] shape = "puint" -> JNum(val[1] * 10)
      [] shape = "pfloat" -> JNum(val[1])
      [] shape = "anys" -> JArr([i \in 1..val[1].n |-> FromInterface(val[1].a[i])])
      [] shape = "strings" -> MarshalStrings(val)
      [] shape = "pschema" -> MarshalSchemaPtr(val)
      [] shape = "schemas" -> JArr([i \in 1..val[1].n |-> MarshalSchemaPtr(val[1].a[i])])
      [] shape = "mschema" ->
            LET ks == SortedKeys(val[1])
            IN  JObj([i \in 1..Len(ks) |-> <<ks[i], MarshalSchemaPtr(val[1][ks[i]])>>])
      [] shape = "mbool" ->
            LET ks == SortedKeys(val[1])
            IN  JObj([i \in 1..Len(ks) |-> <<ks[i], JBool(val[1][ks[i]])>>])
      [] shape = "mstrings" ->
            LET ks == SortedKeys(val[1])
            IN  JObj([i \in 1..Len(ks) |-> <<ks[i], MarshalStrings(val[1][ks[i]])>>])

\* json.Marshal of a struct schema: its fields in declaration order, each
\* under the name of its tag (its Go name when it has no tag), a field left
\* out only when its tag says omitempty and it is empty.  baseURI is
\* unexported and never written.
MarshalStruct(st) ==
    LET keep == SelectSeq([i \in 1..Len(Fields) |-> i],
                    LAMBDA i : ~(Fields[i].omitempty
                                 /\ IsEmptyValue(Fields[i].shape, st.f[Fields[i].go])))
    IN  JObj([i \in 1..Len(keep) |->
                <<Fields[keep[i]].json,
                  MarshalValue(Fields[keep[i]].shape, st.f[Fields[keep[i]].go])>>])

MarshalSchema(sc) ==
    IF IsNil(sc.schema) THEN JObj(<<>>) ELSE MarshalStruct(sc.schema[1])

(***************************************************************************)
(* The inputs.                                                              *)
(***************************************************************************)

\* The most members an input object has.
MaxMembers == 2

\* The most members a document served to FromURI has.
LoadMaxMembers == 1

\* JSON texts that are not objects.
Tops == <<JBool(TRUE), JBool(FALSE), JNull, JNum(30), JStr("banana"), JArr(<<>>), JBad>>

\* The member names of the input objects.
DocKeys == <<"not", "additionalProperties", "allOf", "properties", "type",
             "items", "const", "title", "required", "x-unknown">>

\* The member values of the input objects.
DocValues == <<JBool(TRUE), JBool(FALSE), JNull,
               JStr("banana"), JStr("string"), JNum(30), JNum(-10),
               JObj(<<>>), JObj(<< <<"type", JStr("string")>> >>),
               JObj(<< <<"a", JBool(FALSE)>> >>),
               JArr(<<>>), JArr(<<JStr("string")>>), JArr(<<JBool(TRUE), JObj(<<>>)>>)>>

LoadKeys == <<"additionalProperties", "title">>

LoadValues == <<JBool(FALSE), JObj(<<>>), JStr("banana")>>

\* The object whose i-th member is named keys[ks[i]] and has value vals[vs[i]].
DocOf(keys, vals, ks, vs) ==
    JObj([i \in 1..Len(ks) |-> <<keys[ks[i]], vals[vs[i]]>>])

(***************************************************************************)
(* Parsing, inspecting and serializing one JSON text.                       *)
(***************************************************************************)

LoaderIdle ==
    /\ pc = "idle"
    /\ uri = ""
    /\ world = <<>>
    /\ s = <<>>
    /\ bs = <<>>
    /\ resp = <<>>
    /\ deferred = FALSE
    /\ bodyOpen = FALSE
    /\ ret = <<>>
    /\ printed = <<>>
    /\ calls = [get |-> 0, readfile |-> 0, readall |-> 0, unmarshal |-> 0]
    /\ panicked = FALSE

ParseIdle ==
    /\ ppc = "idle"
    /\ data = JNull
    /\ sv = NewSchema
    /\ perr = FALSE
    /\ asb = <<>>
    /\ bytes = <<>>

ParseInit ==
    /\ ppc = "input"
    /\ \/ \E i \in 1..Len(Tops) : data = Tops[i]
       \/ \E n \in 0..MaxMembers :
            \E ks \in [1..n -> 1..Len(DocKeys)], vs \in [1..n -> 1..Len(DocValues)] :
                data = DocOf(DocKeys, DocValues, ks, vs)
    /\ sv = NewSchema
    /\ perr = FALSE
    /\ asb = <<>>
    /\ bytes = <<>>
    /\ LoaderIdle

\* var s Schema; err := json.Unmarshal(data, &s)
Parse ==
    /\ ppc = "input"
    /\ LET r == JsonUnmarshal(data, sv)
       IN  /\ sv' = r.val
           /\ perr' = r.err
    /\ ppc' = "parsed"
    /\ UNCHANGED <<data, asb, bytes>>
    /\ UNCHANGED lvars

\* s.AsBool() on the parsed root.
Inspect ==
    /\ ppc = "parsed"
    /\ ~perr
    /\ asb' = AsBool(sv)
    /\ ppc' = "inspected"
    /\ UNCHANGED <<data, sv, perr, bytes>>
    /\ UNCHANGED lvars

\* json.Marshal(s) of the parsed root.
Marshal ==
    /\ ppc = "inspected"
    /\ bytes' = <<MarshalSchema(sv)>>
    /\ ppc' = "marshalled"
    /\ UNCHANGED <<data, sv, perr, asb>>
    /\ UNCHANGED lvars

ParseNext == Parse \/ Inspect \/ Marshal

SpecParse == ParseInit /\ [][ParseNext]_vars

(***************************************************************************)
(* FromURI and main.                                                        *)
(***************************************************************************)

\* The status code FromURI accepts.
StatusOK == 200

\* The status codes the server answers with.
Statuses == <<200, 204, 404>>

\* The uri arguments.
URIs == <<":", "schema.json", "ftp://example.com/schema.json",
          "file:///schema.json", "http://example.com/schema.json",
          "https://example.com/schema.json", "HTTPS://example.com/schema.json">>

\* url.Parse(uri) on the arguments above: whether it fails, and the Scheme
\* (lower-cased by url.Parse), the Path and the String() of the URL.
ParseURL(u) ==
    CASE u = ":" -> [err |-> TRUE, scheme |-> "", path |-> "", string |-> ""]
      [] u = "schema.json" ->
            [err |-> FALSE, scheme |-> "", path |-> "schema.json", string |-> "schema.json"]
      [] u = "ftp://example.com/schema.json" ->
            [err |-> FALSE, scheme |-> "ftp", path |-> "/schema.json", string |-> u]
      [] u = "file:///schema.json" ->
            [err |-> FALSE, scheme |-> "file", path |-> "/schema.json", string |-> u]
      [] u = "http://example.com/schema.json" ->
            [err |-> FALSE, scheme |-> "http", path |-> "/schema.json", string |-> u]
      [] u = "https://example.com/schema.json" ->
            [err |-> FALSE, scheme |-> "https", path |-> "/schema.json", string |-> u]
      [] u = "HTTPS://example.com/schema.json" ->
            [err |-> FALSE, scheme |-> "https", path |-> "/schema.json",
             string |-> "https://example.com/schema.json"]

\* A status check that lets every 2xx response through.
StatusRejectedUnless2xx(status) == status \div 100 # 2

\* if resp.StatusCode != 200
StatusRejected(status) == status # StatusOK

\* A return of FromURI: the result, and the deferred resp.Body.Close() when
\* one is registered.
Returns(sval, e) ==
    /\ ret' = <<[s |-> sval, err |-> e]>>
    /\ bodyOpen' = (bodyOpen /\ ~deferred)
    /\ pc' = "returned"

\* What the outside answers to a call FromURI(uri): the contents of the file
\* (<<>>: the read fails) for a file URI; for an http or https URI whether the
\* GET gets a response at all, the response's status and body, and whether
\* reading the body works.  Nothing is asked of the outside otherwise.
World(u, ok, status, readOk, doc) ==
    CASE ~u.err /\ u.scheme = "file" ->
            [file |-> IF ok THEN <<doc>> ELSE <<>>,
             conn |-> FALSE, status |-> 0, readOk |-> FALSE, body |-> JNull]
      [] ~u.err /\ u.scheme \in {"http", "https"} /\ ok ->
            [file |-> <<>>, conn |-> TRUE, status |-> status, readOk |-> readOk, body |-> doc]
      [] OTHER ->
            [file |-> <<>>, conn |-> FALSE, status |-> 0, readOk |-> FALSE, body |-> JNull]

\* main is about to call FromURI(uri).
Init ==
    /\ ParseIdle
    /\ pc = "call"
    /\ \E i \in 1..Len(URIs) : uri = URIs[i]
    /\ \E ok \in BOOLEAN, st \in 1..Len(Statuses), readOk \in BOOLEAN :
        \/ \E i \in 1..Len(Tops) :
                world = World(ParseURL(uri), ok, Statuses[st], readOk, Tops[i])
        \/ \E n \in 0..LoadMaxMembers :
            \E ks \in [1..n -> 1..Len(LoadKeys)], vs \in [1..n -> 1..Len(LoadValues)] :
                world = World(ParseURL(uri), ok, Statuses[st], readOk,
                              DocOf(LoadKeys, LoadValues, ks, vs))
    /\ s = <<>>
    /\ bs = <<>>
    /\ resp = <<>>
    /\ deferred = FALSE
    /\ bodyOpen = FALSE
    /\ ret = <<>>
    /\ printed = <<>>
    /\ calls = [get |-> 0, readfile |-> 0, readall |-> 0, unmarshal |-> 0]
    /\ panicked = FALSE

\* u, err := url.Parse(uri); if err != nil { return nil, err }; s := &Schema{}
UrlParse ==
    /\ pc = "call"
    /\ IF ParseURL(uri).err
       THEN /\ Returns(<<>>, TRUE)
            /\ UNCHANGED s
       ELSE /\ s' = <<NewSchema>>
            /\ pc' = "switch"
            /\ UNCHANGED <<ret, bodyOpen>>
    /\ UNCHANGED <<uri, world, bs, resp, deferred, printed, calls, panicked>>
    /\ UNCHANGED pvars

\* switch u.Scheme, and its default case.
Switch ==
    /\ pc = "switch"
    /\ LET scheme == ParseURL(uri).scheme
       IN  CASE scheme = "file" ->
                    /\ pc' = "readfile"
                    /\ UNCHANGED <<ret, bodyOpen>>
             [] scheme \in {"http", "https"} ->
                    /\ pc' = "get"
                    /\ UNCHANGED <<ret, bodyOpen>>
             [] OTHER -> Returns(<<>>, TRUE)
    /\ UNCHANGED <<uri, world, s, bs, resp, deferred, printed, calls, panicked>>
    /\ UNCHANGED pvars

\* bs, err := ioutil.ReadFile(u.Path); if err != nil { return nil, err }
ReadFile ==
    /\ pc = "readfile"
    /\ calls' = [calls EXCEPT !.readfile = @ + 1]
    /\ IF IsNil(world.file)
       THEN /\ Returns(<<>>, TRUE)
            /\ UNCHANGED bs
       ELSE /\ bs' = world.file
            /\ pc' = "unmarshal_file"
            /\ UNCHANGED <<ret, bodyOpen>>
    /\ UNCHANGED <<uri, world, s, resp, deferred, printed, panicked>>
    /\ UNCHANGED pvars

\* err = json.Unmarshal(bs, s); if err != nil { return nil, err }  (file case)
UnmarshalFile ==
    /\ pc = "unmarshal_file"
    /\ calls' = [calls EXCEPT !.unmarshal = @ + 1]
    /\ LET r == JsonUnmarshal(bs[1], s[1])
       IN  /\ s' = <<r.val>>
           /\ IF r.err
              THEN Returns(<<>>, TRUE)
              ELSE /\ pc' = "return"
                   /\ UNCHANGED <<ret, bodyOpen>>
    /\ UNCHANGED <<uri, world, bs, resp, deferred, printed, panicked>>
    /\ UNCHANGED pvars

\* resp, err := http.Get(u.String()); if err != nil { return nil, err }
HttpGet ==
    /\ pc = "get"
    /\ calls' = [calls EXCEPT !.get = @ + 1]
    /\ IF ~world.conn
       THEN /\ Returns(<<>>, TRUE)
            /\ UNCHANGED resp
       ELSE /\ resp' = <<[status |-> world.status]>>
            /\ bodyOpen' = TRUE
            /\ pc' = "status"
            /\ UNCHANGED ret
    /\ UNCHANGED <<uri, world, s, bs, deferred, printed, panicked>>
    /\ UNCHANGED pvars

\* if resp.StatusCode != 200 { return nil, errors.New(...) }
CheckStatus ==
    /\ pc = "status"
    /\ IF StatusRejected(resp[1].status)
       THEN Returns(<<>>, TRUE)
       ELSE /\ pc' = "defer"
            /\ UNCHANGED <<ret, bodyOpen>>
    /\ UNCHANGED <<uri, world, s, bs, resp, deferred, printed, calls, panicked>>
    /\ UNCHANGED pvars

\* defer func() { _ = resp.Body.Close() }()
Defer ==
    /\ pc = "defer"
    /\ deferred' = TRUE
    /\ pc' = "readall"
    /\ UNCHANGED <<uri, world, s, bs, resp, bodyOpen, ret, printed, calls, panicked>>
    /\ UNCHANGED pvars

\* bs, err := ioutil.ReadAll(resp.Body); if err != nil { return nil, err }
ReadAll ==
    /\ pc = "readall"
    /\ calls' = [calls EXCEPT !.readall = @ + 1]
    /\ IF ~world.readOk
       THEN /\ Returns(<<>>, TRUE)
            /\ UNCHANGED bs
       ELSE /\ bs' = <<world.body>>
            /\ pc' = "unmarshal_http"
            /\ UNCHANGED <<ret, bodyOpen>>
    /\ UNCHANGED <<uri, world, s, resp, deferred, printed, panicked>>
    /\ UNCHANGED pvars

\* err = json.Unmarshal(bs, s); if err != nil { return nil, err }  (http case)
UnmarshalHttp ==
    /\ pc = "unmarshal_http"
    /\ calls' = [calls EXCEPT !.unmarshal = @ + 1]
    /\ LET r == JsonUnmarshal(bs[1], s[1])
       IN  /\ s' = <<r.val>>
           /\ IF r.err
              THEN Returns(<<>>, TRUE)
              ELSE /\ pc' = "return"
                   /\ UNCHANGED <<ret, bodyOpen>>
    /\ UNCHANGED <<uri, world, bs, resp, deferred, printed, panicked>>
    /\ UNCHANGED pvars

\* return s, nil
Return ==
    /\ pc = "return"
    /\ Returns(s, FALSE)
    /\ UNCHANGED <<uri, world, s, bs, resp, deferred, printed, calls, panicked>>
    /\ UNCHANGED pvars

\* main: fmt.Println(err)
PrintErr ==
    /\ pc = "returned"
    /\ pc' = "asbool"
    /\ UNCHANGED <<uri, world, s, bs, resp, deferred, bodyOpen, ret, printed, calls, panicked>>
    /\ UNCHANGED pvars

\* Whether s.AdditionalProperties.AsBool() dereferences a nil pointer, p being
\* the *Schema FromURI returned: p itself, the embedded *schema the field is
\* promoted from, or the receiver that AsBool reads s.bool through.
NilDeref(p) ==
    \/ IsNil(p)
    \/ IsNil(p[1].schema)
    \/ IsNil(p[1].schema[1].f["AdditionalProperties"])

\* main: fmt.Println(s.AdditionalProperties.AsBool())
PrintAsBool ==
    /\ pc = "asbool"
    /\ IF NilDeref(ret[1].s)
       THEN /\ panicked' = TRUE
            /\ pc' = "panic"
            /\ UNCHANGED printed
       ELSE /\ printed' = AsBool(ret[1].s[1].schema[1].f["AdditionalProperties"][1])
            /\ pc' = "dump"
            /\ UNCHANGED panicked
    /\ UNCHANGED <<uri, world, s, bs, resp, deferred, bodyOpen, ret, calls>>
    /\ UNCHANGED pvars

\* main: spew.Dump(s), and the end of the program.
Dump ==
    /\ pc = "dump"
    /\ pc' = "exit"
    /\ UNCHANGED <<uri, world, s, bs, resp, deferred, bodyOpen, ret, printed, calls, panicked>>
    /\ UNCHANGED pvars

Next ==
    \/ UrlParse
    \/ Switch
    \/ ReadFile
    \/ UnmarshalFile
    \/ HttpGet
    \/ CheckStatus
    \/ Defer
    \/ ReadAll
    \/ UnmarshalHttp
    \/ Return
    \/ PrintErr
    \/ PrintAsBool
    \/ Dump

Spec == Init /\ [][Next]_vars

(***************************************************************************)
(* Vocabulary of the properties.                                            *)
(***************************************************************************)

\* The keyword of JSON Schema 2019-09 a field stands for: the name in its
\* tag, and for the five fields without a tag the keyword they are named
\* after.
Keyword(go) ==
    CASE go = "Properties" -> "properties"
      [] go = "PatternProperties" -> "patternProperties"
      [] go = "AdditionalProperties" -> "additionalProperties"
      [] go = "UnevaluatedProperties" -> "unevaluatedProperties"
      [] go = "PropertyNames" -> "propertyNames"
      [] OTHER -> FieldOf(go).json

Keywords == {Keyword(go) : go \in GoNames}

\* Equality of JSON values: objects are equal when they have the same names
\* and equal values under each name, whatever the order of the members.
RECURSIVE JEq(_, _)
JEq(x, y) ==
    /\ x.k = y.k
    /\ CASE x.k = "arr" ->
                /\ Len(x.v) = Len(y.v)
                /\ \A i \in 1..Len(x.v) : JEq(x.v[i], y.v[i])
         [] x.k = "obj" ->
                /\ MemberNames(x.v) = MemberNames(y.v)
                /\ \A n \in MemberNames(x.v) : JEq(LastValue(x.v, n), LastValue(y.v, n))
         [] x.k \in {"null", "bad"} -> TRUE
         [] OTHER -> x.v = y.v

\* Exactly one of the two variants of sc is active, and so it is for every
\* Schema sc holds in a single-child field, a sequence or a map.
RECURSIVE ExactlyOneVariant(_)
ExactlyOneVariant(sc) ==
    /\ IsNil(sc.bool) # IsNil(sc.schema)
    /\ \/ IsNil(sc.schema)
       \/ \A i \in 1..Len(Fields) :
            LET val == sc.schema[1].f[Fields[i].go]
            IN  CASE Fields[i].shape = "pschema" ->
                        IsNil(val) \/ ExactlyOneVariant(val[1])
                  [] Fields[i].shape = "schemas" ->
                        \A e \in 1..Len(Elems(val)) :
                            IsNil(Elems(val)[e]) \/ ExactlyOneVariant(Elems(val)[e][1])
                  [] Fields[i].shape = "mschema" ->
                        \/ IsNil(val)
                        \/ \A n \in DOMAIN val[1] :
                            IsNil(val[1][n]) \/ ExactlyOneVariant(val[1][n][1])
                  [] OTHER -> TRUE

Parsed == ppc \in {"parsed", "inspected", "marshalled"}

Accepted == Parsed /\ ~perr

\* One of the seven type tags, as a JSON string.
IsTypeTag(j) == j.k = "str" /\ j.v \in {types[i] : i \in 1..Len(types)}

\* A type tag or an array of type tags.
IsTypeValue(j) ==
    \/ IsTypeTag(j)
    \/ j.k = "arr" /\ \A i \in 1..Len(j.v) : IsTypeTag(j.v[i])

\* The text j is one the boolean-or-object rule of the root makes a schema of.
IsSchemaText(j) == j.k \in {"bool", "obj"} /\ ~UnmarshalJSON(NewSchema, j).err

Returned == ~IsNil(ret)

(***************************************************************************)
(* The properties.                                                          *)
(***************************************************************************)

\* C1: in the Schema parsed from any accepted JSON text, the root and every
\* nested Schema have exactly one variant active, the boolean or the object,
\* never both and never neither.
C1_ExactlyOneVariant == Accepted => ExactlyOneVariant(sv)

\* C2: parsing the literal b (true or false) gives a Schema whose AsBool is
\* (b, true), and serializing that Schema gives back the bare literal b.
C2_BooleanRoundTrip ==
    (ppc = "marshalled" /\ data.k = "bool") =>
        /\ asb = <<data.v, TRUE>>
        /\ JEq(bytes[1], data)

\* C3: serializing the Schema parsed from an accepted JSON object gives a JSON
\* object whose names are exactly the keywords present in the input, each
\* with a value equal to the input's.
C3_ObjectRoundTrip ==
    (ppc = "marshalled" /\ data.k = "obj") =>
        LET present == MemberNames(data.v) \cap Keywords
        IN  /\ bytes[1].k = "obj"
            /\ MemberNames(bytes[1].v) = present
            /\ \A n \in present : JEq(LastValue(bytes[1].v, n), LastValue(data.v, n))

\* C4: in the Schema parsed from an accepted JSON object, a single-child
\* schema keyword given as the literal b is a Schema whose AsBool is
\* (b, true), and one given as a JSON object is a Schema whose AsBool has
\* ok = false.
C4_NestedAsBool ==
    (Accepted /\ data.k = "obj") =>
        \A i \in 1..Len(Fields) :
            (Fields[i].shape = "pschema" /\ Keyword(Fields[i].go) \in MemberNames(data.v)) =>
                LET given == LastValue(data.v, Keyword(Fields[i].go))
                    field == sv.schema[1].f[Fields[i].go]
                IN  /\ given.k = "bool" =>
                            ~IsNil(field) /\ AsBool(field[1]) = <<given.v, TRUE>>
                    /\ given.k = "obj" =>
                            ~IsNil(field) /\ AsBool(field[1])[2] = FALSE

\* C5: parsing a JSON object whose type is not one of the seven tags or an
\* array of them is an error, and the type of every parsed schema holds only
\* those tags.  (A type of null is read as no type at all.)
C5_TypeTagsChecked ==
    (Parsed /\ data.k = "obj") =>
        /\ ( /\ "type" \in MemberNames(data.v)
             /\ LastValue(data.v, "type").k # "null"
             /\ ~IsTypeValue(LastValue(data.v, "type")) ) => perr
        /\ ~perr => \/ sv.schema[1].f["Type"].k = "null"
                    \/ IsTypeValue(FromInterface(sv.schema[1].f["Type"]))

\* C6: parsing a JSON object whose items is neither a schema (a boolean or an
\* object the rule of the root accepts) nor an array of schemas is an error.
\* (An items of null is read as no items at all.)
C6_ItemsDuality ==
    (Parsed /\ data.k = "obj" /\ "items" \in MemberNames(data.v)) =>
        LET given == LastValue(data.v, "items")
        IN  \/ perr
            \/ given.k = "null"
            \/ IsSchemaText(given)
            \/ given.k = "arr" /\ \A i \in 1..Len(given.v) : IsSchemaText(given.v[i])

\* C7: when FromURI returns an object schema, that schema's baseURI is the
\* resolved absolute form of the uri argument.
C7_BaseURISet ==
    (Returned /\ ~ret[1].err /\ ~IsNil(ret[1].s[1].schema)) =>
        ret[1].s[1].schema[1].baseURI = ParseURL(uri).string

\* C8: once a GET has answered with a status other than 200, the body is
\* never read and nothing is parsed, the GET was issued exactly once, FromURI
\* is at its status check or has returned, and what it returns is an error
\* and a nil schema.
C8_Non200NoReadNoParse ==
    (~IsNil(resp) /\ resp[1].status # StatusOK) =>
        /\ calls.get = 1
        /\ calls.readall = 0
        /\ calls.unmarshal = 0
        /\ pc \in {"status", "returned", "asbool", "panic", "dump", "exit"}
        /\ Returned => (ret[1].err /\ IsNil(ret[1].s))

\* FromURI has returned after a GET that answered 404.
C8_Witness ==
    /\ Returned
    /\ ~IsNil(resp)
    /\ resp[1].status = 404
    /\ ret[1].err
    /\ calls.get = 1

\* C9: main's s.AdditionalProperties.AsBool() never dereferences a nil
\* pointer.
C9_NoNilDeref == ~panicked

\* C10: when FromURI returns after a GET that got a response, the response's
\* body is closed.
C10_BodyClosedOnReturn == (Returned /\ ~IsNil(resp)) => ~bodyOpen

====
